---- MODULE Spec2Model ----
(***************************************************************************)
(* ghost: line-complexity checker for Go source (main.go).                 *)
(*                                                                         *)
(* The program walks the function declarations of each file it is given,   *)
(* scores every top-level statement with LineComplexity and prints a       *)
(* record for each statement whose score exceeds -max-line-complexity.     *)
(* The model keeps the program's globals as variables, takes one step per  *)
(* iteration of main's loops and evaluates LineComplexity / exprComplexity *)
(* as recursive operators that thread the globals they change              *)
(* (commentGroupIndex, hasErrors, standard output) through a context.      *)
(***************************************************************************)
EXTENDS Integers, Sequences, FiniteSets, TLC

VARIABLES
    args,                     \* os.Args[1:], the files named on the command line
    optionMaxLineComplexity,  \* -max-line-complexity
    optionNeverFail,          \* -never-fail
    optionIgnoreTests,        \* -ignore-tests
    file,                     \* the parsed file (with fset: its name), NoFile while nil
    currentFunction,          \* <<>> while nil, else <<name>>
    hasErrors,                \* sticky flag
    commentGroupIndex,        \* cursor into file.Comments (0-based, as in the code)
    stdout,                   \* the records printed so far
    argIdx, declIdx, stmtIdx, \* positions of main's and checkFunction's range loops
    pc,                       \* "files", "decls", "stmts", "exited", "panicked"
    exitStatus,               \* -1 while running
    calls                     \* history: one entry per LineComplexity invocation

vars == <<args, optionMaxLineComplexity, optionNeverFail, optionIgnoreTests, file,
          currentFunction, hasErrors, commentGroupIndex, stdout, argIdx, declIdx,
          stmtIdx, pc, exitStatus, calls>>

----------------------------------------------------------------------------
(* Bounds of the inputs.                                                   *)

\* thresholds tried: -1 .. MaxThreshold
MaxThreshold == 6
\* comment groups placed in one generated file
MaxComments == 2
\* files on one command line
MaxFiles == 2

----------------------------------------------------------------------------
(* go/ast nodes.  Every node is a record with the same fields, an absent   *)
(* (nil) child being a node of kind "nil".                                 *)
(*   Expr: sub  = the operand expressions the code reads, in field order   *)
(*         body = the statements of a FuncLit                              *)
(*   Stmt: exprs = the expressions the code reads, sub = <<Init, Post>> of *)
(*         a ForStmt, body = nested statement list, specs = GenDecl.Specs  *)

Ex(kind, op, name, sub, body) ==
    [kind |-> kind, op |-> op, name |-> name, sub |-> sub, body |-> body]

St(kind, pos, exprs, sub, body, specs) ==
    [kind |-> kind, pos |-> pos, exprs |-> exprs, sub |-> sub, body |-> body,
     specs |-> specs]

NilExpr == Ex("nil", "", "", <<>>, <<>>)
NilStmt == St("nil", 0, <<>>, <<>>, <<>>, <<>>)

\* token.Pos -> line of fset.Position: the layout puts ten offsets on a line
LineOf(pos) == pos \div 10

\* strings.HasSuffix on a name kept as its components, e.g. <<"a", "_test", ".go">>
HasSuffix(name, suffix) ==
    /\ Len(name) >= Len(suffix)
    /\ SubSeq(name, Len(name) - Len(suffix) + 1, Len(name)) = suffix

\* strings.Contains(comment, "ghost:ignore"); a text is the sequence of its pieces,
\* a piece being the marker, a newline, or a run of other characters
Contains(comment, marker) == \E i \in 1..Len(comment) : comment[i] = marker

----------------------------------------------------------------------------
(* The traversal context: the globals LineComplexity changes, the result   *)
(* of the call in progress, and whether a panic is propagating.            *)

Ctx(idx, out, err, log) ==
    [idx |-> idx, out |-> out, err |-> err, calls |-> log, depth |-> 0,
     comment |-> <<>>, panicked |-> FALSE, ret |-> 0]

Ret(c, n) == [c EXCEPT !.ret = n]
Panic(c) == [c EXCEPT !.panicked = TRUE]

printLine(complexity, line, c) ==
    [c EXCEPT !.err = TRUE,
              !.out = Append(@, [file |-> file.Name,
                                 line |-> LineOf(line.pos),
                                 complexity |-> complexity,
                                 fn |-> IF currentFunction = <<>> THEN ""
                                        ELSE currentFunction[1]])]

maxInt(numbers) ==
    CHOOSE m \in {numbers[i] : i \in 1..Len(numbers)} :
        \A i \in 1..Len(numbers) : numbers[i] <= m

\* Evaluation order: `first` is computed once, then `rest` is applied to its value.
\* Then is the same for a step a propagating panic skips.
Do(first, rest(_)) == CHOOSE r \in {rest(x) : x \in {first}} : TRUE
Then(first, rest(_)) == Do(first, LAMBDA x : IF x.panicked THEN x ELSE rest(x))

\* consumeComment with `if` for its `for`: at most one group is taken
consumeOneComment(line, c) ==
    IF c.idx < Len(file.Comments)
    THEN IF line.kind = "nil"
         THEN Panic(c)
         ELSE IF file.Comments[c.idx + 1].pos < line.pos
              THEN [c EXCEPT !.comment = @ \o file.Comments[c.idx + 1].text
                                           \o <<"\n">>,
                             !.idx = @ + 1]
              ELSE c
    ELSE c

RECURSIVE consumeComment(_, _)
consumeComment(line, c) ==
    IF c.idx < Len(file.Comments)
    THEN IF line.kind = "nil"
         THEN Panic(c)                     \* line.Pos() on a nil interface
         ELSE IF file.Comments[c.idx + 1].pos < line.pos
              THEN Do([c EXCEPT !.comment = @ \o file.Comments[c.idx + 1].text
                                              \o <<"\n">>,
                                !.idx = @ + 1],
                      LAMBDA c1 : consumeComment(line, c1))
              ELSE c
    ELSE c

\* the directive test with == for strings.Contains
isIgnoredExactly(comment) == comment = <<"ghost:ignore", "\n">>

isIgnored(comment) == Contains(comment, "ghost:ignore")

RECURSIVE LineComplexity(_, _), exprComplexity(_, _), visitStmts(_, _),
          exprsLoop(_, _, _), listLoop(_, _, _), specsLoop(_, _, _, _)

\* for _, l := range list { LineComplexity(l) }
visitStmts(list, c) ==
    IF list = <<>> THEN c
    ELSE Then(LineComplexity(Head(list), c), LAMBDA c1 : visitStmts(Tail(list), c1))

exprsLoop(exprs, total, c) ==
    IF exprs = <<>> THEN Ret(c, total)
    ELSE Then(exprComplexity(Head(exprs), c),
              LAMBDA c1 : exprsLoop(Tail(exprs), total + c1.ret, c1))

exprsComplexity(exprs, c) == exprsLoop(exprs, 0, c)

listLoop(exprs, total, c) ==
    IF exprs = <<>> THEN Ret(c, total)
    ELSE Then(exprComplexity(Head(exprs), c),
              LAMBDA c1 :
                  listLoop(Tail(exprs),
                           total + (IF c1.ret - 1 < 0 THEN 0 ELSE c1.ret - 1), c1))

listComplexity(exprs, c) == listLoop(exprs, 1, c)

\* the end of the BinaryExpr case with `if` for its `else if`: both sides can get
\* the call bonus
binaryResultBothCalls(e, left, right) ==
    LET X == e.sub[1]
        Y == e.sub[2]
        l == IF X.kind = "CallExpr" THEN left + 1 ELSE left
        r == IF Y.kind = "CallExpr" THEN right + 1 ELSE right
    IN  IF /\ X.kind = "BinaryExpr" /\ e.op = "&&"
           /\ X.sub[2].kind = "Ident" /\ X.sub[2].name = "nil"
        THEN right
        ELSE IF l + r = 0 THEN 1
        ELSE l + r

\* the end of the BinaryExpr case, from `left` and `right` as first computed
binaryResult(e, left, right) ==
    LET X == e.sub[1]
        Y == e.sub[2]
        l == IF X.kind = "CallExpr" THEN left + 1 ELSE left
        r == IF X.kind # "CallExpr" /\ Y.kind = "CallExpr" THEN right + 1 ELSE right
    IN  IF /\ X.kind = "BinaryExpr" /\ e.op = "&&"
           /\ X.sub[2].kind = "Ident" /\ X.sub[2].name = "nil"
        THEN right
        ELSE IF l + r = 0 THEN 1
        ELSE l + r

\* the BinaryExpr case of exprComplexity; e.sub = <<X, Y>>
binaryExprComplexity(e, c) ==
    Then(exprComplexity(e.sub[1], c),
         LAMBDA cl :
             Then(exprComplexity(e.sub[2], cl),
                  LAMBDA cr : Ret(cr, binaryResult(e, cl.ret, cr.ret))))

Plus1(c) == Then(c, LAMBDA c1 : Ret(c1, 1 + c1.ret))

exprComplexity(e, c) ==
    CASE e.kind \in {"nil", "BasicLit", "Ident", "ArrayType", "MapType", "ChanType",
                     "StructType", "InterfaceType"} -> Ret(c, 0)
      [] e.kind = "SelectorExpr" -> Ret(c, 0)
      [] e.kind \in {"UnaryExpr", "TypeAssertExpr"} -> Ret(c, 1)
      [] e.kind = "StarExpr" -> exprComplexity(e.sub[1], c)
      [] e.kind = "CallExpr" -> Plus1(exprsComplexity(Tail(e.sub), c))
      [] e.kind = "BinaryExpr" -> binaryExprComplexity(e, c)
      [] e.kind = "CompositeLit" -> listComplexity(e.sub, c)
      [] e.kind = "IndexExpr" -> Plus1(exprComplexity(e.sub[2], c))
      [] e.kind = "KeyValueExpr" -> exprComplexity(e.sub[2], c)
      [] e.kind = "ParenExpr" -> exprComplexity(e.sub[1], c)
      [] e.kind = "FuncLit" -> Then(visitStmts(e.body, c), LAMBDA c1 : Ret(c1, 1))
      [] e.kind = "SliceExpr" -> Plus1(exprsComplexity(Tail(e.sub), c))
      [] OTHER -> Panic(c)

\* the DeclStmt case: the loop over n.Decl.(*ast.GenDecl).Specs
specsLoop(specs, total, line, c) ==
    IF specs = <<>> THEN Ret(c, total)
    ELSE CASE Head(specs).kind = "TypeSpec" -> specsLoop(Tail(specs), total, line, c)
           [] Head(specs).kind = "ValueSpec" ->
                Then(exprsComplexity(Head(specs).values, c),
                     LAMBDA c1 : specsLoop(Tail(specs), total + c1.ret, line, c1))
           [] OTHER -> Panic(printLine(-1, line, c))

\* the ForStmt case; line.sub = <<Init, Post>>, line.exprs = <<Cond>>
forStmtComplexity(line, c) ==
    Then(visitStmts(line.body, c), LAMBDA cb :
    Then(LineComplexity(line.sub[1], cb), LAMBDA ci :
    Then(exprComplexity(line.exprs[1], ci), LAMBDA cc :
    Then(LineComplexity(line.sub[2], cc), LAMBDA cp :
    Ret(cp, maxInt(<<ci.ret, cc.ret, cp.ret>>))))))

\* the type switch of LineComplexity
stmtComplexity(line, c) ==
    CASE line.kind \in {"nil", "LabeledStmt", "SelectStmt"} -> Ret(c, 0)
      [] line.kind \in {"IncDecStmt", "BranchStmt"} -> Ret(c, 1)
      [] line.kind = "AssignStmt" -> exprsComplexity(line.exprs, c)
      [] line.kind = "ExprStmt" -> exprComplexity(line.exprs[1], c)
      [] line.kind = "ReturnStmt" ->
            IF Len(line.exprs) = 0 THEN Ret(c, 0) ELSE listComplexity(line.exprs, c)
      [] line.kind = "IfStmt" ->
            Then(visitStmts(line.body, c),
                 LAMBDA c1 : exprComplexity(line.exprs[1], c1))
      [] line.kind = "BlockStmt" ->
            Then(visitStmts(line.body, c), LAMBDA c1 : Ret(c1, 0))
      [] line.kind = "ForStmt" -> forStmtComplexity(line, c)
      [] line.kind = "SwitchStmt" ->
            IF line.exprs[1].kind = "nil" THEN Ret(c, 0)
            ELSE Then(visitStmts(line.body, c),
                      LAMBDA c1 : Plus1(exprComplexity(line.exprs[1], c1)))
      [] line.kind \in {"DeferStmt", "GoStmt"} ->
            exprComplexity(line.exprs[1].sub[1], c)      \* n.Call.Fun
      [] line.kind = "TypeSwitchStmt" ->
            Then(visitStmts(line.body, c), LAMBDA c1 : Ret(c1, 1))
      [] line.kind = "RangeStmt" -> exprComplexity(line.exprs[1], c)
      [] line.kind = "DeclStmt" -> specsLoop(line.specs, 0, line, c)
      [] line.kind = "CaseClause" ->
            Then(visitStmts(line.body, c),
                 LAMBDA c1 : listComplexity(line.exprs, c1))
      [] line.kind = "SendStmt" -> exprComplexity(line.exprs[1], c)
      [] OTHER -> Panic(c)

\* The history entry of an invocation: the statement, the cursor before and after
\* consumeComment, the text it returned and how the call ended so far.
CallEntry(line, c, c1) ==
    [line |-> line, arg |-> argIdx, depth |-> c.depth + 1, before |-> c.idx,
     after |-> c1.idx, comment |-> c1.comment,
     ignored |-> ~c1.panicked /\ isIgnored(c1.comment),
     done |-> ~c1.panicked /\ isIgnored(c1.comment),
     fault |-> c1.panicked, ret |-> 0]

\* defer func() { if r := recover(); r != nil { printLine(-1, line); panic(r) } }()
\* and the return: the call's entry n gets its outcome
leave(line, n, depth, c3) ==
    Do(IF c3.panicked THEN printLine(-1, line, c3) ELSE c3,
       LAMBDA c4 : [c4 EXCEPT !.depth = depth,
                              !.calls[n].done = ~c4.panicked,
                              !.calls[n].fault = c4.panicked,
                              !.calls[n].ret = IF c4.panicked THEN 0 ELSE c4.ret])

LineComplexity(line, c) ==
    Do(consumeComment(line, [c EXCEPT !.comment = <<>>]), LAMBDA c1 :
    Do([c1 EXCEPT !.calls = Append(@, CallEntry(line, c, c1)), !.depth = c.depth + 1],
       LAMBDA c2 :
           IF c1.panicked THEN [c2 EXCEPT !.depth = c.depth]
           ELSE IF isIgnored(c1.comment) THEN [c2 EXCEPT !.depth = c.depth, !.ret = 0]
           ELSE Do(stmtComplexity(line, c2),
                   LAMBDA c3 : leave(line, Len(c2.calls), c.depth, c3))))

\* checkLine with >= for >
checkLineAtLeast(line, c) ==
    Do(LineComplexity(line, c),
       LAMBDA c1 : IF c1.panicked THEN c1
                   ELSE IF c1.ret >= optionMaxLineComplexity
                        THEN printLine(c1.ret, line, c1)
                        ELSE c1)

checkLine(line, c) ==
    Do(LineComplexity(line, c),
       LAMBDA c1 : IF c1.panicked THEN c1
                   ELSE IF c1.ret > optionMaxLineComplexity
                        THEN printLine(c1.ret, line, c1)
                        ELSE c1)

----------------------------------------------------------------------------
(* The state machine: main's loop over the files, its loop over the        *)
(* declarations and checkFunction's loop over the body.                    *)

\* the default of -max-line-complexity
DefaultMaxLineComplexity == 5

NoFile == [Name |-> <<>>, parseErr |-> FALSE, Comments |-> <<>>, Decls |-> <<>>]

\* for _, currentFile := range os.Args[1:]: the two `continue`s
SkipFile ==
    /\ pc = "files" /\ argIdx <= Len(args)
    /\ \/ ~HasSuffix(args[argIdx].Name, <<".go">>)
       \/ optionIgnoreTests /\ HasSuffix(args[argIdx].Name, <<"_test", ".go">>)
    /\ argIdx' = argIdx + 1
    /\ UNCHANGED <<args, optionMaxLineComplexity, optionNeverFail, optionIgnoreTests,
                   file, currentFunction, hasErrors, commentGroupIndex, stdout,
                   declIdx, stmtIdx, pc, exitStatus, calls>>

Parsed(f) ==
    /\ HasSuffix(f.Name, <<".go">>)
    /\ ~(optionIgnoreTests /\ HasSuffix(f.Name, <<"_test", ".go">>))

\* parser.ParseFile fails: panic(err)
ParsePanic ==
    /\ pc = "files" /\ argIdx <= Len(args)
    /\ Parsed(args[argIdx]) /\ args[argIdx].parseErr
    /\ file' = args[argIdx]
    /\ pc' = "panicked"
    /\ exitStatus' = 2
    /\ UNCHANGED <<args, optionMaxLineComplexity, optionNeverFail, optionIgnoreTests,
                   currentFunction, hasErrors, commentGroupIndex, stdout, argIdx,
                   declIdx, stmtIdx, calls>>

\* parser.ParseFile succeeds; commentGroupIndex = 0
ParseFile ==
    /\ pc = "files" /\ argIdx <= Len(args)
    /\ Parsed(args[argIdx]) /\ ~args[argIdx].parseErr
    /\ file' = args[argIdx]
    /\ commentGroupIndex' = 0
    /\ declIdx' = 1
    /\ pc' = "decls"
    /\ UNCHANGED <<args, optionMaxLineComplexity, optionNeverFail, optionIgnoreTests,
                   currentFunction, hasErrors, stdout, argIdx, stmtIdx, exitStatus,
                   calls>>

\* for _, decl := range file.Decls: a declaration that is no FuncDecl
SkipDecl ==
    /\ pc = "decls" /\ declIdx <= Len(file.Decls)
    /\ file.Decls[declIdx].kind # "FuncDecl"
    /\ declIdx' = declIdx + 1
    /\ UNCHANGED <<args, optionMaxLineComplexity, optionNeverFail, optionIgnoreTests,
                   file, currentFunction, hasErrors, commentGroupIndex, stdout,
                   argIdx, stmtIdx, pc, exitStatus, calls>>

\* checkFunction up to its loop
checkFunction ==
    /\ pc = "decls" /\ declIdx <= Len(file.Decls)
    /\ file.Decls[declIdx].kind = "FuncDecl"
    /\ currentFunction' = <<file.Decls[declIdx].name>>
    /\ IF file.Decls[declIdx].hasBody
       THEN /\ stmtIdx' = 1
            /\ pc' = "stmts"
            /\ UNCHANGED declIdx
       ELSE /\ declIdx' = declIdx + 1
            /\ UNCHANGED <<stmtIdx, pc>>
    /\ UNCHANGED <<args, optionMaxLineComplexity, optionNeverFail, optionIgnoreTests,
                   file, hasErrors, commentGroupIndex, stdout, argIdx, exitStatus,
                   calls>>

\* for _, stmt := range fn.Body.List { checkLine(stmt) }: one iteration
CheckLine ==
    /\ pc = "stmts" /\ stmtIdx <= Len(file.Decls[declIdx].body)
    /\ \E c \in {checkLine(file.Decls[declIdx].body[stmtIdx],
                           Ctx(commentGroupIndex, stdout, hasErrors, calls))} :
           /\ commentGroupIndex' = c.idx
           /\ stdout' = c.out
           /\ hasErrors' = c.err
           /\ calls' = c.calls
           /\ IF c.panicked
              THEN /\ pc' = "panicked"
                   /\ exitStatus' = 2
                   /\ UNCHANGED stmtIdx
              ELSE /\ stmtIdx' = stmtIdx + 1
                   /\ UNCHANGED <<pc, exitStatus>>
    /\ UNCHANGED <<args, optionMaxLineComplexity, optionNeverFail, optionIgnoreTests,
                   file, currentFunction, argIdx, declIdx>>

\* checkFunction returns
EndFunction ==
    /\ pc = "stmts" /\ stmtIdx > Len(file.Decls[declIdx].body)
    /\ declIdx' = declIdx + 1
    /\ pc' = "decls"
    /\ UNCHANGED <<args, optionMaxLineComplexity, optionNeverFail, optionIgnoreTests,
                   file, currentFunction, hasErrors, commentGroupIndex, stdout,
                   argIdx, stmtIdx, exitStatus, calls>>

\* the loop over file.Decls ends
EndFile ==
    /\ pc = "decls" /\ declIdx > Len(file.Decls)
    /\ argIdx' = argIdx + 1
    /\ pc' = "files"
    /\ UNCHANGED <<args, optionMaxLineComplexity, optionNeverFail, optionIgnoreTests,
                   file, currentFunction, hasErrors, commentGroupIndex, stdout,
                   declIdx, stmtIdx, exitStatus, calls>>

\* if hasErrors && !optionNeverFail { os.Exit(1) }
Exit ==
    /\ pc = "files" /\ argIdx > Len(args)
    /\ exitStatus' = IF hasErrors /\ ~optionNeverFail THEN 1 ELSE 0
    /\ pc' = "exited"
    /\ UNCHANGED <<args, optionMaxLineComplexity, optionNeverFail, optionIgnoreTests,
                   file, currentFunction, hasErrors, commentGroupIndex, stdout,
                   argIdx, declIdx, stmtIdx, calls>>

Next ==
    \/ SkipFile
    \/ ParsePanic
    \/ ParseFile
    \/ SkipDecl
    \/ checkFunction
    \/ CheckLine
    \/ EndFunction
    \/ EndFile
    \/ Exit

----------------------------------------------------------------------------
(* The inputs: syntax trees as go/parser builds them.  Nodes start at      *)
(* multiples of ten, in source order; a comment group may sit five offsets *)
(* after any node start, or before the first declaration.                  *)

Id(n) == Ex("Ident", "", n, <<>>, <<>>)
Lit == Ex("BasicLit", "", "", <<>>, <<>>)
Call(a) == Ex("CallExpr", "", "", <<Id("f")>> \o a, <<>>)
CallOf(fun, a) == Ex("CallExpr", "", "", <<fun>> \o a, <<>>)
Bin(op, x, y) == Ex("BinaryExpr", op, "", <<x, y>>, <<>>)
Un(x) == Ex("UnaryExpr", "!", "", <<x>>, <<>>)
Paren(x) == Ex("ParenExpr", "", "", <<x>>, <<>>)
Star(x) == Ex("StarExpr", "", "", <<x>>, <<>>)
Sel(x) == Ex("SelectorExpr", "", "b", <<x>>, <<>>)
TypeAssert(x) == Ex("TypeAssertExpr", "", "", <<x>>, <<>>)
Index(x, i) == Ex("IndexExpr", "", "", <<x, i>>, <<>>)
Slice(x, lo, hi, mx) == Ex("SliceExpr", "", "", <<x, lo, hi, mx>>, <<>>)
KeyValue(k, v) == Ex("KeyValueExpr", "", "", <<k, v>>, <<>>)
Composite(elts) == Ex("CompositeLit", "", "", elts, <<>>)
FuncLit(b) == Ex("FuncLit", "", "", <<>>, b)
FuncType == Ex("FuncType", "", "", <<>>, <<>>)

Assign(p, rhs) == St("AssignStmt", p, rhs, <<>>, <<>>, <<>>)
ExprS(p, x) == St("ExprStmt", p, <<x>>, <<>>, <<>>, <<>>)
Return(p, r) == St("ReturnStmt", p, r, <<>>, <<>>, <<>>)
If(p, cond, b) == St("IfStmt", p, <<cond>>, <<>>, b, <<>>)
Block(p, b) == St("BlockStmt", p, <<>>, <<>>, b, <<>>)
For(p, init, cond, post, b) == St("ForStmt", p, <<cond>>, <<init, post>>, b, <<>>)
Switch(p, tag, b) == St("SwitchStmt", p, <<tag>>, <<>>, b, <<>>)
TypeSwitch(p, b) == St("TypeSwitchStmt", p, <<>>, <<>>, b, <<>>)
Case(p, l, b) == St("CaseClause", p, l, <<>>, b, <<>>)
Defer(p, call) == St("DeferStmt", p, <<call>>, <<>>, <<>>, <<>>)
Go(p, call) == St("GoStmt", p, <<call>>, <<>>, <<>>, <<>>)
Range(p, x, b) == St("RangeStmt", p, <<x>>, <<>>, b, <<>>)
Send(p, v) == St("SendStmt", p, <<v>>, <<>>, <<>>, <<>>)
IncDec(p) == St("IncDecStmt", p, <<>>, <<>>, <<>>, <<>>)
Branch(p) == St("BranchStmt", p, <<>>, <<>>, <<>>, <<>>)
Labeled(p, s) == St("LabeledStmt", p, <<>>, <<>>, <<s>>, <<>>)
Select(p) == St("SelectStmt", p, <<>>, <<>>, <<>>, <<>>)
Empty(p) == St("EmptyStmt", p, <<>>, <<>>, <<>>, <<>>)
Decl(p, specs) == St("DeclStmt", p, <<>>, <<>>, <<>>, specs)
ValueSpec(v) == [kind |-> "ValueSpec", values |-> v]
TypeSpec == [kind |-> "TypeSpec", values |-> <<>>]

Func(name, p, b) ==
    [kind |-> "FuncDecl", name |-> name, pos |-> p, hasBody |-> TRUE, body |-> b]
ExternFunc(name, p) ==
    [kind |-> "FuncDecl", name |-> name, pos |-> p, hasBody |-> FALSE, body |-> <<>>]
GenDecl(p) ==
    [kind |-> "GenDecl", name |-> "", pos |-> p, hasBody |-> FALSE, body |-> <<>>]

\* f(f(f()), f(f()), f(f())): score 7
Big == Call(<<Call(<<Call(<<>>)>>), Call(<<Call(<<>>)>>), Call(<<Call(<<>>)>>)>>)

\* func a() { x := f(f(f()), f(f()), f(f())); y := 1 }
TreeAssign == <<Func("a", 10, <<Assign(20, <<Big>>), Assign(30, <<Lit>>)>>)>>
\* func a() { if a || b { x := f(f(f()), f(f()), f(f())) }; x++ }
TreeIf ==
    <<Func("a", 10, <<If(20, Bin("||", Id("a"), Id("b")), <<Assign(30, <<Big>>)>>),
                      IncDec(40)>>)>>
\* func a() { for i := 0; i < n; i++ { x++ }; return }
TreeFor ==
    <<Func("a", 10, <<For(20, Assign(30, <<Lit>>), Bin("<", Id("i"), Id("n")),
                          IncDec(40), <<IncDec(50)>>),
                      Return(60, <<>>)>>)>>
\* func a() { for {} }
TreeForEver == <<Func("a", 10, <<For(20, NilStmt, NilExpr, NilStmt, <<>>)>>)>>
\* func a() { for true {} }
TreeForIdent == <<Func("a", 10, <<For(20, NilStmt, Id("true"), NilStmt, <<>>)>>)>>
\* func a() { for true && false {} }
TreeForBinary ==
    <<Func("a", 10, <<For(20, NilStmt, Bin("&&", Id("true"), Id("false")), NilStmt,
                          <<>>)>>)>>
\* func a() { ; x := f(f(f()), f(f()), f(f())) }
TreeEmpty == <<Func("a", 10, <<Empty(20), Assign(30, <<Big>>)>>)>>
\* func a() { if x { ; }; y := f(f(f()), f(f()), f(f())) }
TreeIfEmpty ==
    <<Func("a", 10, <<If(20, Id("x"), <<Empty(30)>>), Assign(40, <<Big>>)>>)>>
\* func a() { L: x++; select {}; y := f(f(f()), f(f()), f(f())) }
TreeLabeled ==
    <<Func("a", 10, <<Labeled(20, IncDec(30)), Select(40), Assign(50, <<Big>>)>>)>>
\* func a() { switch x { case f(f()): y := f(f(f()), f(f()), f(f())); default: z++ } }
TreeSwitch ==
    <<Func("a", 10,
           <<Switch(20, Id("x"),
                    <<Case(30, <<Call(<<Call(<<>>)>>)>>, <<Assign(40, <<Big>>)>>),
                      Case(50, <<>>, <<IncDec(60)>>)>>)>>)>>
\* func a() { switch v.(type) { case int: x := f(f(f()), f(f()), f(f())) } }
TreeTypeSwitch ==
    <<Func("a", 10,
           <<TypeSwitch(20, <<Case(30, <<Id("int")>>, <<Assign(40, <<Big>>)>>)>>)>>)>>
\* func a() { if func() bool { return f() }() { x++ } }
TreeFuncLitCond ==
    <<Func("a", 10,
           <<If(20, CallOf(FuncLit(<<Return(30, <<Call(<<>>)>>)>>), <<>>),
                <<IncDec(40)>>)>>)>>
\* func a() { x := new(func()); y := f(f(f()), f(f()), f(f())) }
TreeFuncType ==
    <<Func("a", 10, <<Assign(20, <<Call(<<FuncType>>)>>), Assign(30, <<Big>>)>>)>>
\* func a() { { { x := f(f(f()), f(f()), f(f())) } } }
TreeBlock ==
    <<Func("a", 10, <<Block(20, <<Block(30, <<Assign(40, <<Big>>)>>)>>)>>)>>
\* var g = 1; func a() { x := f(f(f()), f(f()), f(f())) }; func ext(); func b() { return f(f()) }
TreeDecls ==
    <<GenDecl(10), Func("a", 20, <<Assign(30, <<Big>>)>>), ExternFunc("ext", 40),
      Func("b", 50, <<Return(60, <<Call(<<Call(<<>>)>>)>>)>>)>>
\* func a() { x = a() + b() + c() }
TreeSum ==
    <<Func("a", 10,
           <<Assign(20, <<Bin("+", Bin("+", Call(<<>>), Call(<<>>)), Call(<<>>))>>)>>)>>
\* func a() { defer func() { x := f(f(f()), f(f()), f(f())) }()
\*            go f(f(f(f()), f(f()), f(f())))
\*            for range f(f()) { x := f(f(f()), f(f()), f(f())) } }
TreeDefer ==
    <<Func("a", 10,
           <<Defer(20, CallOf(FuncLit(<<Assign(30, <<Big>>)>>), <<>>)),
             Go(40, Call(<<Big>>)),
             Range(50, Call(<<Call(<<>>)>>), <<Assign(60, <<Big>>)>>)>>)>>
\* func a() { ch <- f(); var a = f(1 + b); type T int
\*            switch { case x: y++ }
\*            return m[1 + 2], s[f() : a + b : f()], T{k: f(f())}, *(a + b), a.b, !a, a.(T) }
TreeMisc ==
    <<Func("a", 10,
           <<Send(20, Call(<<>>)),
             Decl(30, <<ValueSpec(<<Call(<<Bin("+", Lit, Id("b"))>>)>>)>>),
             Decl(40, <<TypeSpec>>),
             Switch(50, NilExpr, <<Case(60, <<Id("x")>>, <<IncDec(70)>>)>>),
             Return(80, <<Index(Id("m"), Bin("+", Lit, Lit)),
                          Slice(Id("s"), Call(<<>>), Bin("+", Id("a"), Id("b")),
                                Call(<<>>)),
                          Composite(<<KeyValue(Id("k"), Call(<<Call(<<>>)>>))>>),
                          Star(Paren(Bin("+", Id("a"), Id("b")))),
                          Sel(Id("a")), Un(Id("a")), TypeAssert(Id("a"))>>)>>)>>

Trees ==
    {TreeAssign, TreeIf, TreeFor, TreeForEver, TreeForIdent, TreeForBinary, TreeEmpty,
     TreeIfEmpty, TreeLabeled, TreeSwitch, TreeTypeSwitch, TreeFuncLitCond,
     TreeFuncType, TreeBlock, TreeDecls, TreeSum, TreeDefer, TreeMisc}

\* the start positions of the statements of a tree
RECURSIVE StmtsPos(_), ExprsPos(_)
StmtsPos(list) ==
    IF list = <<>> THEN {}
    ELSE LET s == Head(list)
         IN  (IF s.kind = "nil" THEN {} ELSE {s.pos})
             \cup StmtsPos(s.sub) \cup StmtsPos(s.body) \cup ExprsPos(s.exprs)
             \cup UNION {ExprsPos(s.specs[i].values) : i \in 1..Len(s.specs)}
             \cup StmtsPos(Tail(list))
ExprsPos(list) ==
    IF list = <<>> THEN {}
    ELSE StmtsPos(Head(list).body) \cup ExprsPos(Head(list).sub)
         \cup ExprsPos(Tail(list))

DeclsPos(decls) ==
    UNION {{decls[i].pos} \cup StmtsPos(decls[i].body) : i \in 1..Len(decls)}

Slots(decls) == {5} \cup {p + 5 : p \in DeclsPos(decls)}

\* the text of a comment group without and with the directive
Texts == {<<"plain">>, <<"plain", "ghost:ignore", "plain">>}

RECURSIVE SortByPos(_)
SortByPos(groups) ==
    IF groups = {} THEN <<>>
    ELSE LET g == CHOOSE x \in groups : \A y \in groups : x.pos <= y.pos
         IN  <<g>> \o SortByPos(groups \ {g})

\* file.Comments: up to MaxComments groups in the slots, in source order
CommentLists(slots) ==
    UNION {{SortByPos({[pos |-> p, text |-> t[p]] : p \in S}) : t \in [S -> Texts]} :
              S \in {T \in SUBSET slots : Cardinality(T) <= MaxComments}}

GoFile(name, decls, comments) ==
    [Name |-> name, parseErr |-> FALSE, Comments |-> comments, Decls |-> decls]

\* one file per tree and placement of comments
TreeFiles ==
    UNION {{GoFile(<<"a", ".go">>, d, cs) : cs \in CommentLists(Slots(d))} : d \in Trees}

\* func a() { x := <X op Y> } for the binary expressions over these operands
Operands ==
    {Id("a"), Id("nil"), Lit, Call(<<>>), Call(<<Call(<<>>)>>), Sel(Id("a")),
     Bin("!=", Id("a"), Id("nil")), Bin("==", Id("nil"), Id("a")),
     Bin("+", Call(<<>>), Call(<<>>)), Paren(Bin("!=", Id("a"), Id("nil"))),
     Un(Id("a"))}
Operators == {"&&", "||", "+"}
BinaryFiles ==
    {GoFile(<<"a", ".go">>, <<Func("a", 10, <<Assign(20, <<Bin(op, x, y)>>)>>)>>, <<>>) :
        op \in Operators, x \in Operands, y \in Operands}

\* the files of the command lines that name more than one
OtherFiles ==
    {GoFile(<<"b", ".go">>, TreeAssign, <<[pos |-> 15, text |-> <<"plain">>]>>),
     GoFile(<<"c", ".go">>, TreeIf,
            <<[pos |-> 5, text |-> <<"plain">>],
              [pos |-> 35, text |-> <<"plain", "ghost:ignore", "plain">>]>>),
     GoFile(<<"c", "_test", ".go">>, TreeDecls, <<>>),
     GoFile(<<"d", ".txt">>, <<>>, <<>>),
     [GoFile(<<"e", ".go">>, <<>>, <<>>) EXCEPT !.parseErr = TRUE]}

CommandLines ==
    {<<f>> : f \in TreeFiles \cup BinaryFiles}
    \cup UNION {[1..n -> OtherFiles] : n \in 1..MaxFiles}

Init ==
    /\ args \in CommandLines
    /\ optionMaxLineComplexity \in -1..MaxThreshold
    /\ optionNeverFail \in BOOLEAN
    /\ optionIgnoreTests \in BOOLEAN
    /\ file = NoFile
    /\ currentFunction = <<>>
    /\ hasErrors = FALSE
    /\ commentGroupIndex = 0
    /\ stdout = <<>>
    /\ argIdx = 1
    /\ declIdx = 1
    /\ stmtIdx = 1
    /\ pc = "files"
    /\ exitStatus = -1
    /\ calls = <<>>

Spec == Init /\ [][Next]_vars

----------------------------------------------------------------------------
(* Vocabulary of the properties.                                           *)

Marker == "ghost:ignore"
Threshold == optionMaxLineComplexity
CallIds == 1..Len(calls)
FileOf(e) == args[e.arg]

\* the number of comment groups of f positioned before pos
GroupsBefore(f, pos) ==
    Cardinality({k \in 1..Len(f.Comments) : f.Comments[k].pos < pos})

\* the text of groups from+1 .. to of f, as consumeComment concatenates it
RECURSIVE TextOf(_, _, _)
TextOf(f, from, to) ==
    IF from >= to THEN <<>>
    ELSE f.Comments[from + 1].text \o <<"\n">> \o TextOf(f, from + 1, to)

\* the statements of the function bodies of a file, in order: all of them, or
\* those before statement ns of declaration nd
RECURSIVE TopLevel(_, _, _, _)
TopLevel(f, d, nd, ns) ==
    IF d > Len(f.Decls) \/ d > nd THEN <<>>
    ELSE (IF d < nd THEN f.Decls[d].body ELSE SubSeq(f.Decls[d].body, 1, ns - 1))
         \o TopLevel(f, d + 1, nd, ns)

\* the top-level statements checkLine has been given so far, with their file
RECURSIVE Processed(_)
Processed(a) ==
    IF a > Len(args) THEN <<>>
    ELSE LET f == args[a]
             all == TopLevel(f, 1, Len(f.Decls) + 1, 1)
             part == TopLevel(f, 1, declIdx, IF pc = "stmts" THEN stmtIdx ELSE 1)
             stmts == IF ~Parsed(f) \/ f.parseErr THEN <<>>
                      ELSE IF a < argIdx THEN all
                      ELSE IF a = argIdx /\ pc \in {"decls", "stmts"} THEN part
                      ELSE <<>>
         IN  [k \in 1..Len(stmts) |-> [arg |-> a, line |-> stmts[k]]]
             \o Processed(a + 1)

IsTop(e) == e.depth = 1
Project(r) == [file |-> r.file, line |-> r.line, complexity |-> r.complexity]
RecordOf(e) ==
    [file |-> FileOf(e).Name, line |-> LineOf(e.line.pos), complexity |-> e.ret]
MapSeq(F(_), q) == [k \in 1..Len(q) |-> F(q[k])]
Exceeds(e) == IsTop(e) /\ e.ret > Threshold
ArgLine(e) == [arg |-> e.arg, line |-> e.line]

\* C1 (state part): while no fault has happened, the invocations made by checkLine
\* are exactly the top-level statements of the function bodies visited so far, the
\* records printed are exactly those of the top-level statements whose score is
\* strictly greater than the threshold, in that order, and the flag is set exactly
\* when a record has been printed.
C1_RecordsInv ==
    pc # "panicked" =>
        /\ MapSeq(ArgLine, SelectSeq(calls, IsTop)) = Processed(1)
        /\ MapSeq(Project, stdout) = MapSeq(RecordOf, SelectSeq(calls, Exceeds))
        /\ hasErrors = (stdout # <<>>)

\* C1: one violation record per top-level statement whose score is strictly greater
\* than the threshold, none for a nested statement or for a score equal to the
\* threshold, in visitation order; the flag is true exactly when a record has been
\* emitted and never goes back to false.
C1_Records == [](C1_RecordsInv) /\ [][hasErrors => hasErrors']_vars

\* C1 witness: a finished run that printed a record, gave checkLine a statement
\* scoring exactly the threshold and visited a nested statement scoring above it
C1_Witness ==
    /\ pc = "exited" /\ stdout # <<>>
    /\ \E i \in CallIds : IsTop(calls[i]) /\ calls[i].done /\ calls[i].ret = Threshold
    /\ \E i \in CallIds : ~IsTop(calls[i]) /\ calls[i].ret > Threshold

\* positions of the statements nested in s
NestedPos(s) == StmtsPos(<<s>>) \ {s.pos}

\* C2: a statement whose resolved comment text contains the marker scores 0, none
\* of its nested statements is visited, the cursor stays where the groups before
\* the statement end, and with a non-negative threshold no record is printed for it.
C2_Ignore ==
    \A i \in CallIds :
        LET e == calls[i] IN
        Contains(e.comment, Marker) =>
            /\ e.done /\ ~e.fault /\ e.ret = 0
            /\ \A j \in CallIds :
                   calls[j].arg = e.arg => calls[j].line.pos \notin NestedPos(e.line)
            /\ i < Len(calls) => calls[i + 1].depth <= e.depth
            /\ \A k \in (e.before + 1)..e.after :
                   FileOf(e).Comments[k].pos < e.line.pos
            /\ (i < Len(calls) /\ calls[i + 1].arg = e.arg)
                   => calls[i + 1].before = e.after
            /\ (i = Len(calls) /\ e.arg = argIdx /\ pc # "files")
                   => commentGroupIndex = e.after
            /\ Threshold >= 0 =>
                   \A k \in 1..Len(stdout) :
                       ~(/\ stdout[k].file = FileOf(e).Name
                         /\ stdout[k].line = LineOf(e.line.pos))

\* C2 witness: an ignored top-level statement with a nested statement and a comment
\* group inside it, under a non-negative threshold
C2_Witness ==
    /\ pc = "exited" /\ Threshold >= 0
    /\ \E i \in CallIds :
          /\ Contains(calls[i].comment, Marker)
          /\ IsTop(calls[i])
          /\ NestedPos(calls[i].line) # {}
          /\ \E k \in 1..Len(FileOf(calls[i]).Comments) :
                 /\ FileOf(calls[i]).Comments[k].pos > calls[i].line.pos
                 /\ FileOf(calls[i]).Comments[k].pos
                        < CHOOSE m \in NestedPos(calls[i].line) :
                              \A n \in NestedPos(calls[i].line) : n <= m

Max2(a, b) == IF a >= b THEN a ELSE b

\* C9 (state part): the cursor is within the file's comment groups; every call on
\* a statement consumes exactly the unconsumed groups positioned before it and
\* returns their text; calls of one file consume disjoint, ascending ranges, the
\* first of them starting from 0.
C9_CursorInv ==
    /\ pc \in {"decls", "stmts"} =>
           commentGroupIndex \in 0..Len(file.Comments)
    /\ \A i \in CallIds :
           LET e == calls[i]
               f == FileOf(e)
           IN  /\ 0 <= e.before /\ e.before <= e.after /\ e.after <= Len(f.Comments)
               /\ e.line.kind # "nil" =>
                      /\ e.after = Max2(e.before, GroupsBefore(f, e.line.pos))
                      /\ e.comment = TextOf(f, e.before, e.after)
               /\ e.line.kind = "nil" => e.after = e.before /\ e.comment = <<>>
               /\ \A j \in CallIds :
                      (i < j /\ calls[j].arg = e.arg) => e.after <= calls[j].before
               /\ (\A j \in 1..(i - 1) : calls[j].arg # e.arg) => e.before = 0

\* C9: the comment cursor starts at 0 in each file, stays within the file's comment
\* groups, never decreases within a file, and each call consumes exactly the
\* not-yet-consumed groups before its statement, no group twice.
C9_Cursor ==
    /\ [](C9_CursorInv)
    /\ [][/\ (pc = "files" /\ pc' = "decls") => commentGroupIndex' = 0
          /\ (pc \in {"decls", "stmts"} /\ pc' # "files")
                 => commentGroupIndex' >= commentGroupIndex]_vars

\* C9 witness: the second file of a command line is being read after the first had
\* its groups consumed, one call having taken a group and left one for later
C9_Witness ==
    /\ \E i, j \in CallIds :
          /\ calls[i].arg = 1 /\ calls[i].after > calls[i].before
          /\ calls[i].after < Len(FileOf(calls[i]).Comments)
          /\ calls[j].arg = 2 /\ calls[j].after > calls[j].before

SumFile == GoFile(<<"a", ".go">>, TreeSum, <<>>)

\* C4 as stated: one record for the line of x = a() + b() + c() and exit status 1
\* under threshold 5
C4_Original ==
    (/\ args = <<SumFile>> /\ Threshold = DefaultMaxLineComplexity
     /\ ~optionNeverFail /\ pc = "exited")
        => /\ Len(stdout) = 1
           /\ stdout[1].line = LineOf(20)
           /\ stdout[1].complexity = calls[1].ret
           /\ exitStatus = 1

\* C4 amended: x = a() + b() + c() scores 5; under threshold 5 no record is printed
\* and the exit status is 0; one record, carrying 5, and exit status 1 need a
\* threshold below 5.
C4_Amended ==
    (/\ args = <<SumFile>> /\ ~optionNeverFail /\ pc = "exited")
        => /\ calls[1].ret = 5
           /\ IF Threshold < 5
              THEN /\ Len(stdout) = 1
                   /\ stdout[1].line = LineOf(20)
                   /\ stdout[1].complexity = 5
                   /\ exitStatus = 1
              ELSE /\ stdout = <<>>
                   /\ exitStatus = 0

\* C4 witness: the run of the claim has ended
C4_Witness ==
    /\ args = <<SumFile>> /\ Threshold = DefaultMaxLineComplexity
    /\ ~optionNeverFail /\ pc = "exited"

\* C3 as stated: a binary expression never scores below 1 (seen as the score of the
\* assignment whose right-hand side it is)
C3_BinaryAtLeastOne ==
    \A i \in CallIds :
        LET e == calls[i] IN
        (/\ e.line.kind = "AssignStmt" /\ Len(e.line.exprs) = 1
         /\ e.line.exprs[1].kind = "BinaryExpr"
         /\ e.done /\ ~e.ignored)
            => e.ret >= 1

\* the kinds LineComplexity and exprComplexity have a rule for
StmtKinds ==
    {"nil", "LabeledStmt", "SelectStmt", "IncDecStmt", "BranchStmt", "AssignStmt",
     "ExprStmt", "ReturnStmt", "IfStmt", "BlockStmt", "ForStmt", "SwitchStmt",
     "DeferStmt", "GoStmt", "TypeSwitchStmt", "RangeStmt", "DeclStmt", "CaseClause",
     "SendStmt"}
ExprKinds ==
    {"nil", "BasicLit", "Ident", "ArrayType", "MapType", "ChanType", "StructType",
     "InterfaceType", "SelectorExpr", "UnaryExpr", "TypeAssertExpr", "StarExpr",
     "CallExpr", "BinaryExpr", "CompositeLit", "IndexExpr", "KeyValueExpr",
     "ParenExpr", "FuncLit", "SliceExpr"}

RECURSIVE StmtsSupported(_), ExprsSupported(_)
StmtsSupported(list) ==
    \A k \in 1..Len(list) :
        /\ list[k].kind \in StmtKinds
        /\ StmtsSupported(list[k].sub) /\ StmtsSupported(list[k].body)
        /\ ExprsSupported(list[k].exprs)
        /\ \A n \in 1..Len(list[k].specs) : ExprsSupported(list[k].specs[n].values)
ExprsSupported(list) ==
    \A k \in 1..Len(list) :
        /\ list[k].kind \in ExprKinds
        /\ ExprsSupported(list[k].sub) /\ StmtsSupported(list[k].body)

\* the score the call made for statement s inside call i returned (0 for nil)
ClauseScore(i, s) ==
    IF s.kind = "nil" THEN 0
    ELSE calls[CHOOSE j \in CallIds : j > i /\ calls[j].arg = calls[i].arg
                                      /\ calls[j].line = s].ret

\* C5 as stated: a for statement that is not ignored returns max(I, C, P) without a
\* fault, whatever the cursor and the comments left in the file, an absent clause
\* counting 0
C5_ForMax ==
    \A i \in CallIds :
        LET e == calls[i] IN
        (/\ e.line.kind = "ForStmt" /\ ~Contains(e.comment, Marker)
         /\ StmtsSupported(<<e.line>>))
            => /\ ~e.fault /\ e.done
               /\ e.ret = maxInt(<<ClauseScore(i, e.line.sub[1]),
                                   exprComplexity(e.line.exprs[1],
                                                  Ctx(0, <<>>, FALSE, <<>>)).ret,
                                   ClauseScore(i, e.line.sub[2])>>)

\* the call in which the fault arose: the last entered of those a panic left
Offender == CHOOSE i \in CallIds : calls[i].fault /\ \A j \in CallIds :
                                       calls[j].fault => j <= i

\* C6 as stated: an unsupported kind ends the run with exactly one record of
\* complexity -1, for the offending statement, and nothing is printed after it
C6_OneDiagnostic ==
    (/\ pc = "panicked" /\ \E i \in CallIds : calls[i].fault
     /\ calls[Offender].line.kind # "nil")
        => /\ Cardinality({k \in 1..Len(stdout) : stdout[k].complexity = -1}) = 1
           /\ stdout[Len(stdout)].complexity = -1
           /\ stdout[Len(stdout)].line = LineOf(calls[Offender].line.pos)
           /\ exitStatus # 0

\* C7 as stated: an empty, labeled or select statement that is not ignored scores 0
\* and raises no fault, at top level or nested
C7_ZeroKinds ==
    \A i \in CallIds :
        LET e == calls[i] IN
        (/\ e.line.kind \in {"EmptyStmt", "LabeledStmt", "SelectStmt"}
         /\ ~Contains(e.comment, Marker))
            => e.done /\ ~e.fault /\ e.ret = 0

\* C8 as stated: without init and post, `for {}` scores 0, `for true {}` scores 1
\* and `for true && false {}` scores 2
C8_ForScores ==
    \A i \in CallIds :
        LET e == calls[i]
            cond == e.line.exprs[1]
        IN  (/\ e.line.kind = "ForStmt" /\ e.done /\ ~e.ignored
             /\ e.line.sub[1].kind = "nil" /\ e.line.sub[2].kind = "nil")
                => /\ cond.kind = "nil" => e.ret = 0
                   /\ cond.kind = "Ident" => e.ret = 1
                   /\ (/\ cond.kind = "BinaryExpr" /\ cond.sub[1].kind = "Ident"
                       /\ cond.sub[2].kind = "Ident") => e.ret = 2

\* C10 as stated: the statements LineComplexity is invoked on come in strictly
\* increasing source position within a function (the functions of a file follow
\* each other in source, so within a file)
C10_SourceOrder ==
    \A i, j \in CallIds :
        (/\ i < j /\ calls[i].arg = calls[j].arg
         /\ calls[i].line.kind # "nil" /\ calls[j].line.kind # "nil")
            => calls[i].line.pos < calls[j].line.pos

====
